---- MODULE Spec2Model ----
(***************************************************************************)
(* SpaceCoastDevs/bbs: the Bubble Tea screen state machine of main.go and  *)
(* its background post fetch.                                              *)
(*                                                                         *)
(* src/main.go holds two revisions of the program, one after the other:    *)
(*   rev = 1  lines   1..446  splash, list and post-detail screens; the    *)
(*                            fetch returns the posts in listing order     *)
(*   rev = 2  lines 447..998  splash and list screens; the fetch sorts the *)
(*                            posts and the newest one is rendered into a  *)
(*                            viewport; local or ssh sessions              *)
(* Both are modelled; rev is chosen in Init and never changes.             *)
(***************************************************************************)
EXTENDS Integers, Sequences, FiniteSets, TLC

\* ------------------------------------------------------------------ bounds
\* how many fetches one run may issue (entries into the list screen)
MaxFetches == 2
\* longest directory listing the fetch function is applied to
MaxEntries == 3
\* publish dates are 1..MaxDate
MaxDate == 3
\* longest markdown body, in segments, the text transform is applied to
MaxSegments == 3
\* how many fetches one ssh session may issue
MaxSessionFetches == 1

Revisions == {1, 2}

\* ------------------------------------------------------------------ errors
\* A Go error value: the operation that failed, the url it was about (0 is
\* the API url) and whether it is wrapped in "failed to load any posts,
\* first error: %w".  NilError is Go's nil.
NilError == [op |-> "nil", url |-> 0, wrapped |-> FALSE]

Errorf(op, url) == [op |-> op, url |-> url, wrapped |-> FALSE]

WrapFirstError(e) == [e EXCEPT !.wrapped = TRUE]

Unwrap(e) == [e EXCEPT !.wrapped = FALSE]

\* ------------------------------------------------------------- the remote
\* What the GitHub API answers to the listing request: "ok" with a JSON
\* array, or the stage of step 1 that fails.
ListingFailures ==
    { "creating API request", "fetching API", "fetching API status",
      "reading API response body", "unmarshalling API JSON" }

\* What happens to the download of one file: "ok", or the step that fails.
EntryFailures ==
    { "creating request", "fetching", "fetching status", "reading body",
      "no frontmatter", "unmarshalling YAML" }

\* One element of the listing (GitHubContent) together with what the remote
\* answers for its download_url.  Name is <<stem, suffix>>, DownloadURL 0 is
\* the empty string, resp is the outcome of the download and date the
\* publishDate of its frontmatter.
Content(i, k) ==
    [ Name        |-> <<i, k.suffix>>,
      Type        |-> k.type,
      DownloadURL |-> IF k.hasURL THEN i ELSE 0,
      resp        |-> k.resp,
      date        |-> k.date ]

\* the kinds of listing element: a directory, a file of another suffix, an
\* .mdx file without download_url, an .mdx file whose download fails at one
\* of the six steps, and an .mdx file that parses, of each date
EntryKinds(failures, maxDate) ==
    { [type |-> "dir",  suffix |-> ".mdx", hasURL |-> TRUE,  resp |-> "ok", date |-> 1],
      [type |-> "file", suffix |-> ".md",  hasURL |-> TRUE,  resp |-> "ok", date |-> 1],
      [type |-> "file", suffix |-> ".mdx", hasURL |-> FALSE, resp |-> "ok", date |-> 1] }
    \cup { [type |-> "file", suffix |-> ".mdx", hasURL |-> TRUE, resp |-> f, date |-> 1]
             : f \in failures }
    \cup { [type |-> "file", suffix |-> ".mdx", hasURL |-> TRUE, resp |-> "ok", date |-> d]
             : d \in 1..maxDate }

\* the listing the API answers with: its elements are of the given kinds
Listing(kinds) == [i \in 1..Len(kinds) |-> Content(i, kinds[i])]

\* an environment of one fetch: the outcome of the listing request, the files
\* the remote directory holds and, when the request is "ok", the listing of
\* them that is decoded into contents
Env(listing, kinds) ==
    [listing |-> listing,
     contents |-> IF listing = "ok" THEN Listing(kinds) ELSE <<>>,
     remote |-> Listing(kinds)]

\* the answers of the remote while the UI runs: the listing request fails;
\* the listing is empty; it holds an older post followed by a newer one
Parses(d) == [type |-> "file", suffix |-> ".mdx", hasURL |-> TRUE, resp |-> "ok", date |-> d]

UiEnvs ==
    { Env("fetching API status", <<>>),
      Env("ok", <<>>),
      Env("ok", <<Parses(1), Parses(2)>>) }

\* ---------------------------------------------------------- fetchPostsCmd
\* PostMetadata: Slug identifies the file it was parsed from (and so its
\* title, excerpt and, in revision 2, its Content).
PostMetadata(content) == [Slug |-> content.Name[1], PublishDate |-> content.date]

NilPost == [Slug |-> 0, PublishDate |-> 0]

postsLoadedMsg(posts, err) == [posts |-> posts, err |-> err]

HasSuffix(name, suffix) == name[2] = suffix

\* time.Time.After
After(t, u) == t > u

\* the state of the loop of step 2: the posts collected, firstError, and the
\* lines written to the log, each <<Name or url, what>>
FetchAcc == [posts |-> <<>>, firstError |-> NilError, log |-> <<>>]

\* recordFailure without the "if firstError == nil" test: the last failure
\* replaces the earlier ones
recordFailureLastWins(acc, content) ==
    [ acc EXCEPT
        !.log = Append(@, <<content.DownloadURL, content.resp>>),
        !.firstError = Errorf(content.resp, content.DownloadURL) ]

\* "if firstError == nil { firstError = ... }; continue" of each failing step
recordFailure(acc, content) ==
    [ acc EXCEPT
        !.log = Append(@, <<content.DownloadURL, content.resp>>),
        !.firstError = IF @ = NilError THEN Errorf(content.resp, content.DownloadURL) ELSE @ ]

\* one iteration of "for _, content := range contents"
fetchEntry(acc, content) ==
    IF content.Type = "file" /\ HasSuffix(content.Name, ".mdx") /\ content.DownloadURL # 0
    THEN IF content.resp # "ok"
         THEN recordFailure(acc, content)
         ELSE [acc EXCEPT !.posts = Append(@, PostMetadata(content))]
    ELSE IF content.Type = "file" /\ HasSuffix(content.Name, ".mdx")
         THEN [acc EXCEPT !.log = Append(@, <<content.Name[1], "Skipping file">>)]
         ELSE acc

\* fetchLoop with "break" for "continue": the first failure ends the loop
RECURSIVE fetchLoopAborts(_, _, _)
fetchLoopAborts(contents, i, acc) ==
    IF i > Len(contents) \/ acc.firstError # NilError THEN acc
    ELSE fetchLoopAborts(contents, i + 1, fetchEntry(acc, contents[i]))

\* "for _, content := range contents"
RECURSIVE fetchLoop(_, _, _)
fetchLoop(contents, i, acc) ==
    IF i > Len(contents) THEN acc
    ELSE fetchLoop(contents, i + 1, fetchEntry(acc, contents[i]))

IsSortedDesc(posts) ==
    \A i \in 1..(Len(posts) - 1) : ~After(posts[i + 1].PublishDate, posts[i].PublishDate)

\* sort.Slice(posts, func(i, j) { return posts[i].PublishDate.After(posts[j].PublishDate) }):
\* sort.Slice is not stable, so every ordering of the same posts that the
\* less function accepts is a possible outcome.
sortSlice(posts) ==
    { q \in { [i \in 1..Len(posts) |-> posts[p[i]]] : p \in Permutations(1..Len(posts)) }
        : IsSortedDesc(q) }

\* the posts as they stand before the final return: revision 1 leaves them
\* in listing order, revision 2 sorts them
collected(r, posts) == IF r = 1 THEN {posts} ELSE sortSlice(posts)

\* fetchReturn failing on any recorded error, also when posts were loaded
fetchReturnStrict(acc, posts) ==
    IF acc.firstError # NilError
    THEN postsLoadedMsg(<<>>, WrapFirstError(acc.firstError))
    ELSE postsLoadedMsg(posts, NilError)

\* the return of the command: total failure only when no post was loaded
fetchReturn(acc, posts) ==
    IF Len(posts) = 0 /\ acc.firstError # NilError
    THEN postsLoadedMsg(<<>>, WrapFirstError(acc.firstError))
    ELSE postsLoadedMsg(posts, NilError)

\* fetchPostsCmd returning nil, no message, when the listing stage fails
fetchPostsCmdSilent(r, env) ==
    IF env.listing # "ok"
    THEN {}
    ELSE LET acc == fetchLoop(env.contents, 1, FetchAcc)
         IN  { fetchReturn(acc, posts) : posts \in collected(r, acc.posts) }

\* the messages one run of the command can return in environment env
fetchPostsCmd(r, env) ==
    IF env.listing # "ok"
    THEN { postsLoadedMsg(<<>>, Errorf(env.listing, 0)) }
    ELSE LET acc == fetchLoop(env.contents, 1, FetchAcc)
         IN  { fetchReturn(acc, posts) : posts \in collected(r, acc.posts) }

\* fetchLog of a fetch that, after a failed listing request, downloads the
\* files of the directory all the same
fetchLogGoesOn(env) ==
    IF env.listing # "ok"
    THEN <<<<0, env.listing>>>> \o fetchLoop(env.remote, 1, FetchAcc).log
    ELSE fetchLoop(env.contents, 1, FetchAcc).log

\* the log of one run (it does not depend on the order of the sort)
fetchLog(env) ==
    IF env.listing # "ok" THEN <<<<0, env.listing>>>>
    ELSE fetchLoop(env.contents, 1, FetchAcc).log

\* ------------------------------------------------------- the list widget
\* bubbles/list as model.Update uses it: the items, the cursor, the filter
\* state and, while a filter is on, the items it shows.
listNew ==
    [ items |-> <<>>, index |-> 0, filterState |-> "Unfiltered",
      filteredItems |-> <<>>, width |-> 0, height |-> 0 ]

listSetSize(l, w, h) == [l EXCEPT !.width = w, !.height = h]

\* SetItems replaces the items; under a filter the shown items are dropped
\* until the filter is run again
listSetItems(l, items) ==
    [ l EXCEPT !.items = items,
               !.filteredItems = IF l.filterState # "Unfiltered" THEN <<>> ELSE @ ]

listVisibleItems(l) == IF l.filterState # "Unfiltered" THEN l.filteredItems ELSE l.items

\* SelectedItem: the item under the cursor, NilPost when there is none
listSelectedItem(l) ==
    LET items == listVisibleItems(l)
    IN  IF l.index < 0 \/ Len(items) = 0 \/ Len(items) <= l.index
        THEN NilPost
        ELSE items[l.index + 1]

listResetFiltering(l) == [l EXCEPT !.filterState = "Unfiltered", !.filteredItems = <<>>]

Max(a, b) == IF a > b THEN a ELSE b

Min(a, b) == IF a < b THEN a ELSE b

\* list.Model.Update on a key: <<the list, whether it returns tea.Quit>>
listUpdate(l, key) ==
    IF key = "ctrl+c" THEN <<l, TRUE>>
    ELSE IF l.filterState = "Filtering"
    THEN CASE key = "esc" -> <<listResetFiltering(l), FALSE>>
           [] key = "enter" ->
                IF Len(l.items) = 0 THEN <<l, FALSE>>
                ELSE IF Len(listVisibleItems(l)) = 0 THEN <<listResetFiltering(l), FALSE>>
                ELSE <<[l EXCEPT !.filterState = "FilterApplied"], FALSE>>
           [] OTHER -> <<l, FALSE>>
    ELSE CASE key = "esc" /\ l.filterState = "FilterApplied" -> <<listResetFiltering(l), FALSE>>
           [] key \in {"q", "esc"} -> <<l, TRUE>>
           [] key \in {"up", "k"} -> <<[l EXCEPT !.index = Max(0, @ - 1)], FALSE>>
           [] key \in {"down", "j"} ->
                <<[l EXCEPT !.index = Max(0, Min(Len(listVisibleItems(l)) - 1, @ + 1))], FALSE>>
           [] key \in {"home"} -> <<[l EXCEPT !.index = 0], FALSE>>
           [] key \in {"end"} ->
                <<[l EXCEPT !.index = Max(0, Len(listVisibleItems(l)) - 1)], FALSE>>
           [] key = "/" /\ Len(l.items) > 0 ->
                <<[l EXCEPT !.filterState = "Filtering", !.filteredItems = l.items,
                            !.index = 0], FALSE>>
           [] OTHER -> <<l, FALSE>>

\* --------------------------------------------------- the viewport widget
NoContent == [text |-> "", src |-> 0, wrap |-> 0]

viewportNew(w, h) == [Width |-> w, Height |-> h, content |-> NoContent, YOffset |-> 0]

\* the lines of the content: a rendered post has two here, the one-line
\* error texts one
contentLines(c) ==
    CASE c.text = "" -> 0
      [] c.text = "formatted" -> 2
      [] OTHER -> 1

maxYOffset(vp) == Max(0, contentLines(vp.content) - vp.Height)

viewportSetYOffset(vp, n) == [vp EXCEPT !.YOffset = Max(0, Min(n, maxYOffset(vp)))]

viewportScrollUp(vp, n) ==
    IF vp.YOffset <= 0 \/ n = 0 THEN vp ELSE viewportSetYOffset(vp, vp.YOffset - n)

viewportScrollDown(vp, n) ==
    IF vp.YOffset >= maxYOffset(vp) \/ n = 0 \/ contentLines(vp.content) = 0 THEN vp
    ELSE viewportSetYOffset(vp, vp.YOffset + n)

viewportGotoTop(vp) == viewportSetYOffset(vp, 0)

viewportGotoBottom(vp) == viewportSetYOffset(vp, maxYOffset(vp))

viewportSetContent(vp, c) ==
    LET v == [vp EXCEPT !.content = c]
    IN  IF v.YOffset > contentLines(c) - 1 THEN viewportGotoBottom(v) ELSE v

\* -------------------------------------------------------------- the model
\* initialModel(): the model struct (viewport and ready exist in revision 2
\* only and keep these values in revision 1)
initialModel ==
    [ currentScreen    |-> "splashScreen",
      showFlashMessage |-> TRUE,
      width            |-> 0,
      height           |-> 0,
      postList         |-> listNew,
      loadingPosts     |-> FALSE,
      postsError       |-> NilError,
      selectedPost     |-> NilPost,
      viewport         |-> viewportNew(0, 0),
      ready            |-> FALSE ]

\* the terminal sizes a tea.WindowSizeMsg carries
Sizes == { [Width |-> 6, Height |-> 4], [Width |-> 4, Height |-> 3] }

Keys ==
    { "q", "esc", "ctrl+c", "enter", "b", "backspace", "up", "down",
      "pageup", "pagedown", "home", "end", "/", "x" }

\* what Update returns: the model and the commands batched with it
Ret(m, cmds) == [m |-> m, cmds |-> cmds]

\* case tea.WindowSizeMsg
updateWindowSizeMsg(r, m, msg) ==
    LET sized == [m EXCEPT !.width = msg.Width, !.height = msg.Height]
        listed == [sized EXCEPT !.postList = listSetSize(@, msg.Width, msg.Height)]
    IN  IF r = 1 THEN Ret(listed, <<>>)
        ELSE IF ~m.ready
        THEN Ret([listed EXCEPT !.viewport = viewportNew(msg.Width, msg.Height - 2),
                                !.ready = TRUE], <<>>)
        ELSE Ret([listed EXCEPT !.viewport.Width = msg.Width,
                                !.viewport.Height = msg.Height - 2], <<>>)

\* updateKeySplash without "m.postList.SetItems([]list.Item{})"
updateKeySplashKeepsItems(m, key) ==
    CASE key \in {"q", "esc", "ctrl+c"} -> Ret(m, <<"Quit">>)
      [] key = "enter" ->
           Ret([m EXCEPT !.currentScreen = "listScreen",
                         !.loadingPosts = TRUE,
                         !.postsError = NilError],
               <<"fetchPostsCmd">>)
      [] OTHER -> Ret(m, <<>>)

\* case tea.KeyMsg, case splashScreen (the same in both revisions)
updateKeySplash(m, key) ==
    CASE key \in {"q", "esc", "ctrl+c"} -> Ret(m, <<"Quit">>)
      [] key = "enter" ->
           Ret([m EXCEPT !.currentScreen = "listScreen",
                         !.loadingPosts = TRUE,
                         !.postsError = NilError,
                         !.postList = listSetItems(@, <<>>)],
               <<"fetchPostsCmd">>)
      [] OTHER -> Ret(m, <<>>)

\* updateKeyBack without "m.postsError = nil"
updateKeyBackKeepsError(m) ==
    [m EXCEPT !.currentScreen = "splashScreen",
              !.showFlashMessage = TRUE]

\* "b", "backspace" in the list screen (the same in both revisions)
updateKeyBack(m) ==
    [m EXCEPT !.currentScreen = "splashScreen",
              !.showFlashMessage = TRUE,
              !.postsError = NilError]

\* updateKeyEnter without the "item != nil" test
updateKeyEnterUnchecked(m) ==
    [m EXCEPT !.selectedPost = listSelectedItem(m.postList),
              !.currentScreen = "postDetailScreen"]

\* updateKeyEnter taking the first item of the list, not the one under the
\* cursor
updateKeyEnterFirst(m) ==
    IF Len(m.postList.items) > 0
    THEN [m EXCEPT !.selectedPost = m.postList.items[1],
                   !.currentScreen = "postDetailScreen"]
    ELSE m

\* "enter" in the list screen of revision 1
updateKeyEnter(m) ==
    LET item == listSelectedItem(m.postList)
    IN  IF item # NilPost
        THEN [m EXCEPT !.selectedPost = item, !.currentScreen = "postDetailScreen"]
        ELSE m

\* updateKeyList1 without the test of FilterState: the keys of the list
\* screen act while the filter is being typed
updateKeyList1Unfiltered(m, key) ==
    IF key \in {"q", "esc"}
    THEN Ret(m, <<"Quit">>)
    ELSE LET own == CASE key \in {"b", "backspace"} -> Ret(updateKeyBack(m), <<"tick">>)
                      [] key = "enter" -> Ret(updateKeyEnter(m), <<>>)
                      [] OTHER -> Ret(m, <<>>)
             lu == listUpdate(own.m.postList, key)
         IN  Ret([own.m EXCEPT !.postList = lu[1]],
                 own.cmds \o (IF lu[2] THEN <<"Quit">> ELSE <<>>))

\* case tea.KeyMsg, case listScreen of revision 1
updateKeyList1(m, key) ==
    IF m.postList.filterState # "Filtering" /\ key \in {"q", "esc"}
    THEN Ret(m, <<"Quit">>)
    ELSE LET own == IF m.postList.filterState = "Filtering" THEN Ret(m, <<>>)
                    ELSE CASE key \in {"b", "backspace"} -> Ret(updateKeyBack(m), <<"tick">>)
                           [] key = "enter" -> Ret(updateKeyEnter(m), <<>>)
                           [] OTHER -> Ret(m, <<>>)
             lu == listUpdate(own.m.postList, key)
         IN  Ret([own.m EXCEPT !.postList = lu[1]],
                 own.cmds \o (IF lu[2] THEN <<"Quit">> ELSE <<>>))

\* updateKeyDetail quitting on "q" and "esc", as the other screens do
updateKeyDetailQuits(m, key) ==
    CASE key \in {"q", "esc"} -> Ret(m, <<"Quit">>)
      [] key \in {"b", "backspace"} ->
           Ret([m EXCEPT !.currentScreen = "listScreen", !.selectedPost = NilPost], <<>>)
      [] OTHER -> Ret(m, <<>>)

\* case tea.KeyMsg, case postDetailScreen of revision 1
updateKeyDetail(m, key) ==
    IF key \in {"q", "esc", "b", "backspace"}
    THEN Ret([m EXCEPT !.currentScreen = "listScreen", !.selectedPost = NilPost], <<>>)
    ELSE Ret(m, <<>>)

\* case tea.KeyMsg, case listScreen of revision 2
updateKeyList2(m, key) ==
    CASE key \in {"q", "esc"} -> Ret(m, <<"Quit">>)
      [] key \in {"b", "backspace"} -> Ret(updateKeyBack(m), <<"tick">>)
      [] key \in {"up", "k"} -> Ret([m EXCEPT !.viewport = viewportScrollUp(@, 1)], <<>>)
      [] key \in {"down", "j"} -> Ret([m EXCEPT !.viewport = viewportScrollDown(@, 1)], <<>>)
      [] key = "pageup" -> Ret([m EXCEPT !.viewport = viewportScrollUp(@, @.Height)], <<>>)
      [] key = "pagedown" -> Ret([m EXCEPT !.viewport = viewportScrollDown(@, @.Height)], <<>>)
      [] key = "home" -> Ret([m EXCEPT !.viewport = viewportGotoTop(@)], <<>>)
      [] key = "end" -> Ret([m EXCEPT !.viewport = viewportGotoBottom(@)], <<>>)
      [] OTHER -> Ret(m, <<>>)

\* case tea.KeyMsg
updateKeyMsg(r, m, key) ==
    CASE m.currentScreen = "splashScreen" -> updateKeySplash(m, key)
      [] m.currentScreen = "listScreen" ->
           IF r = 1 THEN updateKeyList1(m, key) ELSE updateKeyList2(m, key)
      [] m.currentScreen = "postDetailScreen" -> updateKeyDetail(m, key)

\* the widgets case tea.KeyMsg hands the key to: the list through
\* m.postList.Update (revision 1, list screen, unless "q" or "esc" returned
\* first), the viewport through its scroll methods (revision 2, list screen)
forwardedTo(r, m, key) ==
    CASE m.currentScreen = "listScreen" /\ r = 1 ->
           IF m.postList.filterState # "Filtering" /\ key \in {"q", "esc"}
           THEN {} ELSE {"postList"}
      [] m.currentScreen = "listScreen" /\ r = 2 ->
           IF key \in {"up", "k", "down", "j", "pageup", "pagedown", "home", "end"}
           THEN {"viewport"} ELSE {}
      [] OTHER -> {}

\* case tickMsg
updateTickMsg(m) ==
    IF m.currentScreen = "splashScreen"
    THEN Ret([m EXCEPT !.showFlashMessage = ~@], <<"tick">>)
    ELSE Ret(m, <<>>)

\* what glamour does in this run: "ok", or NewTermRenderer fails, or Render
\* fails
GlamourOutcomes == {"ok", "NewTermRenderer", "Render"}

\* renderLatest leaving the viewport without content when glamour fails
renderLatestSilent(g, vp, latestPost) ==
    IF g = "ok"
    THEN [text |-> "formatted", src |-> latestPost.Slug, wrap |-> vp.Width - 2]
    ELSE NoContent

\* the viewport content revision 2 makes of the newest post
renderLatest(g, vp, latestPost) ==
    CASE g = "NewTermRenderer" -> [text |-> "Error initializing renderer.", src |-> 0, wrap |-> 0]
      [] g = "Render" -> [text |-> "Error rendering content.", src |-> 0, wrap |-> 0]
      [] OTHER -> [text |-> "formatted", src |-> latestPost.Slug, wrap |-> vp.Width - 2]

\* the items the list is given on a successful load
loadedItems(msg) == [i \in 1..Len(msg.posts) |-> msg.posts[i]]

\* updatePostsLoadedMsg dropping the selection whenever posts arrive
updatePostsLoadedMsgDeselects(r, g, m, msg) ==
    LET done == [m EXCEPT !.loadingPosts = FALSE, !.selectedPost = NilPost]
    IN  IF msg.err # NilError
        THEN Ret([done EXCEPT !.postsError = msg.err,
                              !.postList = listSetItems(@, <<>>)], <<>>)
        ELSE Ret([done EXCEPT !.postList = listSetItems(@, loadedItems(msg)),
                              !.postsError = NilError], <<>>)

\* updatePostsLoadedMsg adding the loaded posts to the ones already listed
updatePostsLoadedMsgMerges(r, g, m, msg) ==
    LET done == [m EXCEPT !.loadingPosts = FALSE]
    IN  IF msg.err # NilError
        THEN Ret([done EXCEPT !.postsError = msg.err,
                              !.postList = listSetItems(@, <<>>)], <<>>)
        ELSE Ret([done EXCEPT !.postList = listSetItems(@, @.items \o loadedItems(msg)),
                              !.postsError = NilError], <<>>)

\* updatePostsLoadedMsg keeping what a first completion put into the model:
\* a completion handled with the loading flag down is dropped
updatePostsLoadedMsgFirstWins(r, g, m, msg) ==
    IF ~m.loadingPosts THEN Ret(m, <<>>)
    ELSE LET done == [m EXCEPT !.loadingPosts = FALSE]
         IN  IF msg.err # NilError
             THEN Ret([done EXCEPT !.postsError = msg.err,
                                   !.postList = listSetItems(@, <<>>)], <<>>)
             ELSE Ret([done EXCEPT !.postList = listSetItems(@, loadedItems(msg)),
                                   !.postsError = NilError], <<>>)

\* updatePostsLoadedMsg without "m.loadingPosts = false"
updatePostsLoadedMsgKeepsLoading(r, g, m, msg) ==
    IF msg.err # NilError
    THEN Ret([m EXCEPT !.postsError = msg.err,
                       !.postList = listSetItems(@, <<>>)], <<>>)
    ELSE Ret([m EXCEPT !.postList = listSetItems(@, loadedItems(msg)),
                       !.postsError = NilError], <<>>)

\* updatePostsLoadedMsg without "m.postList.SetItems([]list.Item{})" on an
\* error
updatePostsLoadedMsgKeepsListOnError(r, g, m, msg) ==
    LET done == [m EXCEPT !.loadingPosts = FALSE]
    IN  IF msg.err # NilError
        THEN Ret([done EXCEPT !.postsError = msg.err], <<>>)
        ELSE LET set == [done EXCEPT !.postList = listSetItems(@, loadedItems(msg)),
                                     !.postsError = NilError]
             IN  IF r = 2 /\ Len(msg.posts) > 0
                 THEN Ret([set EXCEPT !.viewport =
                              viewportSetContent(@, renderLatest(g, @, msg.posts[1]))], <<>>)
                 ELSE Ret(set, <<>>)

\* case postsLoadedMsg
updatePostsLoadedMsg(r, g, m, msg) ==
    LET done == [m EXCEPT !.loadingPosts = FALSE]
    IN  IF msg.err # NilError
        THEN Ret([done EXCEPT !.postsError = msg.err,
                              !.postList = listSetItems(@, <<>>)], <<>>)
        ELSE LET set == [done EXCEPT !.postList = listSetItems(@, loadedItems(msg)),
                                     !.postsError = NilError]
             IN  IF r = 2 /\ Len(msg.posts) > 0
                 THEN Ret([set EXCEPT !.viewport =
                              viewportSetContent(@, renderLatest(g, @, msg.posts[1]))], <<>>)
                 ELSE Ret(set, <<>>)

\* ------------------------------------------------------- the text transform
\* A Go string is a sequence of one-character strings.
Digit(d) == <<"0", "1", "2", "3", "4", "5", "6", "7", "8", "9">>[d + 1]

IsDigit(c) == c \in {"0", "1", "2", "3", "4", "5", "6", "7", "8", "9"}

\* fmt.Sprintf("%d", n) for n >= 0
RECURSIVE Itoa(_)
Itoa(n) == IF n < 10 THEN <<Digit(n)>> ELSE Itoa(n \div 10) \o <<Digit(n % 10)>>

\* strconv.Atoi(s) returns a nil error: an optional sign, then one or more
\* decimal digits (the strings here are far too short to overflow an int)
AtoiOk(s) ==
    LET digits == IF Len(s) > 0 /\ s[1] \in {"+", "-"} THEN Tail(s) ELSE s
    IN  Len(digits) > 0 /\ \A i \in 1..Len(digits) : IsDigit(digits[i])

stringsHasPrefix(s, prefix) ==
    Len(s) >= Len(prefix) /\ SubSeq(s, 1, Len(prefix)) = prefix

stringsHasSuffix(s, suffix) ==
    Len(s) >= Len(suffix) /\ SubSeq(s, Len(s) - Len(suffix) + 1, Len(s)) = suffix

\* the first index >= i at which s holds c, or 0
IndexFrom(s, c, i) ==
    LET at == { j \in i..Len(s) : s[j] = c }
    IN  IF at = {} THEN 0 ELSE CHOOSE j \in at : \A k \in at : j <= k

NoMatch == [start |-> 0, end |-> 0, match |-> <<>>, text |-> <<>>, url |-> <<>>]

\* the regexp \[([^\]]+)\]\(([^)]+)\) anchored at index p: group 1 may not
\* hold "]" and group 2 may not hold ")", so the first "]" after p closes the
\* text and the first ")" after "](" closes the url; both groups are non-empty
reMatchAt(s, p) ==
    IF p > Len(s) \/ s[p] # "[" THEN NoMatch
    ELSE LET q == IndexFrom(s, "]", p + 1) IN
         IF q = 0 \/ q = p + 1 \/ q + 1 > Len(s) THEN NoMatch
         ELSE IF s[q + 1] # "(" THEN NoMatch
         ELSE LET r == IndexFrom(s, ")", q + 2) IN
              IF r = 0 \/ r = q + 2 THEN NoMatch
              ELSE [start |-> p, end |-> r, match |-> SubSeq(s, p, r),
                    text |-> SubSeq(s, p + 1, q - 1),
                    url |-> SubSeq(s, q + 2, r - 1)]

\* the matches ReplaceAllStringFunc visits: leftmost first, not overlapping
RECURSIVE reFindAll(_, _)
reFindAll(s, p) ==
    IF p > Len(s) THEN <<>>
    ELSE LET mt == reMatchAt(s, p) IN
         IF mt = NoMatch THEN reFindAll(s, p + 1)
         ELSE <<mt>> \o reFindAll(s, mt.end + 1)

fnPrefix == <<"#", "f", "n", ":">>

fnrefPrefix == <<"#", "f", "n", "r", "e", "f", ":">>

\* the two early returns of the replacement function: the link text looks
\* like a footnote marker "[123]", or the url is already a footnote target
looksLikeMarker(linkText) ==
    /\ stringsHasPrefix(linkText, <<"[">>)
    /\ stringsHasSuffix(linkText, <<"]">>)
    /\ AtoiOk(SubSeq(linkText, 2, Len(linkText) - 1))

isFootnoteTarget(url) ==
    stringsHasPrefix(url, fnPrefix) \/ stringsHasPrefix(url, fnrefPrefix)

\* what the closure captures: footnotes and footnoteIndex
NoFootnotes == [footnotes |-> <<>>, footnoteIndex |-> 1]

\* re.FindStringSubmatch: the leftmost match from index p on, or NoMatch
RECURSIVE reFindFirst(_, _)
reFindFirst(s, p) ==
    IF p > Len(s) THEN NoMatch
    ELSE IF reMatchAt(s, p) # NoMatch THEN reMatchAt(s, p)
    ELSE reFindFirst(s, p + 1)

\* replaceFunc without "footnoteIndex++"
replaceFuncNoIncrement(st, match) ==
    LET submatches == reFindFirst(match, 1)
        linkText   == submatches.text
        url        == submatches.url
    IN  IF submatches = NoMatch THEN [st |-> st, out |-> match]
        ELSE IF looksLikeMarker(linkText) \/ isFootnoteTarget(url)
        THEN [st |-> st, out |-> match]
        ELSE [st |-> [footnotes |-> Append(st.footnotes, url),
                      footnoteIndex |-> st.footnoteIndex],
              out |-> linkText \o <<" ", "[">> \o Itoa(st.footnoteIndex) \o <<"]">>]

\* replaceFunc without the test of the url prefix
replaceFuncNoTargetCheck(st, match) ==
    LET submatches == reFindFirst(match, 1)
        linkText   == submatches.text
        url        == submatches.url
    IN  IF submatches = NoMatch THEN [st |-> st, out |-> match]
        ELSE IF looksLikeMarker(linkText)
        THEN [st |-> st, out |-> match]
        ELSE [st |-> [footnotes |-> Append(st.footnotes, url),
                      footnoteIndex |-> st.footnoteIndex + 1],
              out |-> linkText \o <<" ", "[">> \o Itoa(st.footnoteIndex) \o <<"]">>]

\* the function handed to ReplaceAllStringFunc, applied to one match: the
\* closure's new state and the replacement text
replaceFunc(st, match) ==
    LET submatches == reFindFirst(match, 1)
        linkText   == submatches.text
        url        == submatches.url
    IN  IF submatches = NoMatch THEN [st |-> st, out |-> match]
        ELSE IF looksLikeMarker(linkText) \/ isFootnoteTarget(url)
        THEN [st |-> st, out |-> match]
        ELSE [st |-> [footnotes |-> Append(st.footnotes, url),
                      footnoteIndex |-> st.footnoteIndex + 1],
              out |-> linkText \o <<" ", "[">> \o Itoa(st.footnoteIndex) \o <<"]">>]

\* re.ReplaceAllStringFunc: the text between the matches is copied, each
\* match is replaced by what the function returns; from index p on
RECURSIVE replaceAll(_, _, _, _)
replaceAll(s, p, matches, st) ==
    IF matches = <<>>
    THEN [st |-> st, out |-> SubSeq(s, p, Len(s))]
    ELSE LET mt   == Head(matches)
             r    == replaceFunc(st, mt.match)
             rest == replaceAll(s, mt.end + 1, Tail(matches), r.st)
         IN  [st |-> rest.st,
              out |-> SubSeq(s, p, mt.start - 1) \o r.out \o rest.out]

footnotesHeader ==
    <<"\n", "\n", "-", "-", "-", "\n", "*", "*", "F", "o", "o", "t", "n", "o",
      "t", "e", "s", ":", "*", "*", "\n">>

\* the loop writing "[%d]: %s\n" for footnotes[i..]
RECURSIVE footnoteLines(_, _)
footnoteLines(footnotes, i) ==
    IF i > Len(footnotes) THEN <<>>
    ELSE <<"[">> \o Itoa(i) \o <<"]", ":", " ">> \o footnotes[i] \o <<"\n">>
         \o footnoteLines(footnotes, i + 1)

\* footnotesSection without "if len(footnotes) > 0"
footnotesSectionAlways(footnotes) ==
    footnotesHeader \o footnoteLines(footnotes, 1)

footnotesSection(footnotes) ==
    IF Len(footnotes) > 0
    THEN footnotesHeader \o footnoteLines(footnotes, 1)
    ELSE <<>>

transformLinksToFootnotes(markdownContent) ==
    LET r == replaceAll(markdownContent, 1, reFindAll(markdownContent, 1), NoFootnotes)
    IN  r.out \o footnotesSection(r.st.footnotes)

\* ------------------------------------------------------------ the program
VARIABLES
    rev,        \* which revision of main.go runs
    glamour,    \* what the glamour renderer does in this run
    m,          \* the model value the Bubble Tea event loop holds
    quit,       \* tea.Quit was returned: the event loop has ended
    ticks,      \* tick() timers armed and not yet delivered
    fetches,    \* the fetchPostsCmd goroutines, in the order they were started
    handled,    \* OverlapSpec: the completions Update has handled, in that order
    fenv,       \* FetchSpec: the environment fetchPostsCmd is applied to
    fres,       \* FetchSpec: <<>>, or <<what the run returned and logged>>
    body,       \* TransformSpec: the markdown transformLinksToFootnotes is given
    applied,    \* TransformSpec: its output, then its output on that output
    sshSessions,\* SshSpec: the Bubble Tea program of each ssh session
    sshModels   \* SshSpec: the model values the sessions' programs hold

vars == <<rev, glamour, m, quit, ticks, fetches, handled, fenv, fres, body, applied, sshSessions, sshModels>>

FetchIds == 1..MaxFetches

IdleFetch == [st |-> "idle", msg |-> postsLoadedMsg(<<>>, NilError)]

NoEnv == Env("ok", <<>>)

issued == { f \in FetchIds : fetches[f].st # "idle" }

Count(cmds, c) == Cardinality({ i \in 1..Len(cmds) : cmds[i] = c })

\* the ssh sessions: wish serves each one with a Bubble Tea program of its own
SessionIds == {1, 2}

SessionFetchIds == 1..MaxSessionFetches

\* no session is connected: the process runs the local TUI, or nobody has
\* connected yet
NoSession ==
    [state |-> "none", ref |-> 0, quit |-> FALSE, ticks |-> 0,
     fetches |-> [f \in SessionFetchIds |-> IdleFetch]]

NoSsh ==
    /\ sshSessions = [s \in SessionIds |-> NoSession]
    /\ sshModels = [s \in SessionIds |-> initialModel]

\* tea.NewProgram(initialModel()) and model.Init(): one tick() is armed
ProgramInit ==
    /\ rev \in Revisions
    /\ glamour \in IF rev = 1 THEN {"ok"} ELSE GlamourOutcomes
    /\ m = initialModel
    /\ quit = FALSE
    /\ ticks = 1
    /\ fetches = [f \in FetchIds |-> IdleFetch]

Init ==
    /\ ProgramInit
    /\ fenv = NoEnv
    /\ fres = <<>>
    /\ body = <<>>
    /\ applied = <<>>
    /\ handled = <<>>
    /\ NoSsh

\* the event loop takes the model and the commands Update returned: tea.Quit
\* ends it, tick() arms a timer, fetchPostsCmd() starts a goroutine
Run(ret, ticksLeft) ==
    /\ Count(ret.cmds, "fetchPostsCmd") > 0 => Cardinality(issued) < MaxFetches
    /\ m' = ret.m
    /\ quit' = (Count(ret.cmds, "Quit") > 0)
    /\ ticks' = ticksLeft + Count(ret.cmds, "tick")
    /\ fetches' = IF Count(ret.cmds, "fetchPostsCmd") > 0
                  THEN [fetches EXCEPT ![Cardinality(issued) + 1].st = "running"]
                  ELSE fetches
    /\ UNCHANGED <<rev, glamour, handled, fenv, fres, body, applied, sshSessions, sshModels>>

\* a key is pressed
KeyMsg(key) ==
    /\ ~quit
    /\ Run(updateKeyMsg(rev, m, key), ticks)

\* the terminal is resized (or reports its size at start)
WindowSizeMsg(size) ==
    /\ ~quit
    /\ Run(updateWindowSizeMsg(rev, m, size), ticks)

\* a timer armed by tick() fires
TickMsg ==
    /\ ~quit
    /\ ticks > 0
    /\ Run(updateTickMsg(m), ticks - 1)

\* a fetchPostsCmd goroutine that clears the loading flag of the model itself
\* when it returns
FetchReturnWritesModel(f) ==
    /\ ~quit
    /\ fetches[f].st = "running"
    /\ \E env \in UiEnvs : \E msg \in fetchPostsCmd(rev, env) :
          fetches' = [fetches EXCEPT ![f] = [st |-> "returned", msg |-> msg]]
    /\ m' = [m EXCEPT !.loadingPosts = FALSE]
    /\ UNCHANGED <<rev, glamour, quit, ticks, handled, fenv, fres, body, applied, sshSessions, sshModels>>

\* a fetchPostsCmd goroutine returns its message
FetchReturn(f) ==
    /\ ~quit
    /\ fetches[f].st = "running"
    /\ \E env \in UiEnvs : \E msg \in fetchPostsCmd(rev, env) :
          fetches' = [fetches EXCEPT ![f] = [st |-> "returned", msg |-> msg]]
    /\ UNCHANGED <<rev, glamour, m, quit, ticks, handled, fenv, fres, body, applied, sshSessions, sshModels>>

\* the event loop hands a returned message to Update
PostsLoadedMsg(f) ==
    /\ ~quit
    /\ fetches[f].st = "returned"
    /\ m' = updatePostsLoadedMsg(rev, glamour, m, fetches[f].msg).m
    /\ fetches' = [fetches EXCEPT ![f] = [IdleFetch EXCEPT !.st = "processed"]]
    /\ UNCHANGED <<rev, glamour, quit, ticks, handled, fenv, fres, body, applied, sshSessions, sshModels>>

Next ==
    \/ \E key \in Keys : KeyMsg(key)
    \/ \E size \in Sizes : WindowSizeMsg(size)
    \/ TickMsg
    \/ \E f \in FetchIds : FetchReturn(f)
    \/ \E f \in FetchIds : PostsLoadedMsg(f)

Spec == Init /\ [][Next]_vars

\* ------------------------------------- the event loop, completions on record
\* PostsLoadedMsg, with the handled message put on record
PostsLoadedMsgOnRecord(f) ==
    /\ ~quit
    /\ fetches[f].st = "returned"
    /\ m' = updatePostsLoadedMsg(rev, glamour, m, fetches[f].msg).m
    /\ fetches' = [fetches EXCEPT ![f] = [IdleFetch EXCEPT !.st = "processed"]]
    /\ handled' = Append(handled, [f |-> f, msg |-> fetches[f].msg])
    /\ UNCHANGED <<rev, glamour, quit, ticks, fenv, fres, body, applied, sshSessions, sshModels>>

OverlapNext ==
    \/ \E key \in Keys : KeyMsg(key)
    \/ \E size \in Sizes : WindowSizeMsg(size)
    \/ TickMsg
    \/ \E f \in FetchIds : FetchReturn(f)
    \/ \E f \in FetchIds : PostsLoadedMsgOnRecord(f)

OverlapSpec == Init /\ [][OverlapNext]_vars

\* --------------------------------------------------- the fetch on its own
\* fetchPostsCmd applied once to every listing of up to MaxEntries elements
FetchInit ==
    /\ ProgramInit
    /\ glamour = "ok"
    /\ \E listing \in {"ok"} \cup ListingFailures :
          \E n \in 0..MaxEntries :
              \E kinds \in [1..n -> EntryKinds(EntryFailures, MaxDate)] :
                  fenv = Env(listing, kinds)
    /\ fres = <<>>
    /\ body = <<>>
    /\ applied = <<>>
    /\ handled = <<>>
    /\ NoSsh

FetchRun ==
    /\ fres = <<>>
    /\ \E msg \in fetchPostsCmd(rev, fenv) :
          fres' = <<[msg |-> msg, log |-> fetchLog(fenv)]>>
    /\ UNCHANGED <<rev, glamour, m, quit, ticks, fetches, handled, fenv, body, applied, sshSessions, sshModels>>

FetchNext == FetchRun

FetchSpec == FetchInit /\ [][FetchNext]_vars

\* ------------------------------------------- the text transform on its own
\* pieces of markdown a body is put together from: plain text, links, links
\* the replacement function skips, and broken link syntax
Segments ==
    { <<"a">>,
      <<"[", "a", "]", "(", "u", ")">>,
      <<"[", "b", "]", "(", "v", ")">>,
      <<"[", "1", "]">>,
      <<"[", "[", "1", "]", "]">>,
      <<"(", "u", ")">>,
      <<"[", "a", "]", "(">> \o fnPrefix \o <<"1", ")">>,
      <<"[", "a", "]", "(">> \o fnrefPrefix \o <<"1", ")">>,
      <<"[", "a", "]", "(", "#", "f", ")">>,
      <<"[", "a", "]", "(", "u">>,
      <<"[">>,
      <<"]">>,
      <<"[", "]">>,
      <<"(", ")">> }

RECURSIVE Concat(_)
Concat(segs) == IF segs = <<>> THEN <<>> ELSE Head(segs) \o Concat(Tail(segs))

\* transformLinksToFootnotes applied to every body of up to MaxSegments
\* segments, and then once more to its own output
TransformInit ==
    /\ ProgramInit
    /\ rev = 2
    /\ glamour = "ok"
    /\ fenv = NoEnv
    /\ fres = <<>>
    /\ \E n \in 0..MaxSegments : \E segs \in [1..n -> Segments] :
          body = Concat(segs)
    /\ applied = <<>>
    /\ handled = <<>>
    /\ NoSsh

TransformRun ==
    /\ Len(applied) < 2
    /\ applied' = Append(applied, transformLinksToFootnotes(
                      IF applied = <<>> THEN body ELSE applied[Len(applied)]))
    /\ UNCHANGED <<rev, glamour, m, quit, ticks, fetches, handled, fenv, fres, body, sshSessions, sshModels>>

TransformNext == TransformRun

TransformSpec == TransformInit /\ [][TransformNext]_vars

\* ------------------------------------------------------- the ssh sessions
\* main() with os.Args[1] == "ssh": the handler given to bubbletea.Middleware
\* is called once per session and returns initialModel(), a model value built
\* anew by that call; the value made for session s is sshModels[s]
\* (handlerShared: a handler returning one and the same model value)
handlerShared(s) == 1

handler(s) == s

\* the keys and the window size the sessions are given
SshKeys == {"enter", "b", "q"}

SshSize == [Width |-> 6, Height |-> 4]

\* what the remote answers the fetches of each session: a listing with one
\* post for session 1, a failing listing for the others, so that the sessions
\* come to show different lists and errors
SshEnvs(s) ==
    IF s = 1 THEN { Env("ok", <<Parses(1)>>) } ELSE { Env("fetching API status", <<>>) }

SshInit ==
    /\ ProgramInit
    /\ rev = 2
    /\ glamour = "ok"
    /\ fenv = NoEnv
    /\ fres = <<>>
    /\ body = <<>>
    /\ applied = <<>>
    /\ handled = <<>>
    /\ NoSsh

\* a session connects: the middleware calls the handler and starts a program
\* with the model it returns; model.Init() arms one tick()
SshConnect(s) ==
    /\ sshSessions[s].state = "none"
    /\ sshSessions' = [sshSessions EXCEPT ![s] =
                          [NoSession EXCEPT !.state = "running",
                                            !.ref = handler(s),
                                            !.ticks = 1]]
    /\ sshModels' = [sshModels EXCEPT ![handler(s)] = initialModel]
    /\ UNCHANGED <<rev, glamour, m, quit, ticks, fetches, handled, fenv, fres, body, applied>>

SshLive(s) == sshSessions[s].state = "running" /\ ~sshSessions[s].quit

SshIssued(s) == { f \in SessionFetchIds : sshSessions[s].fetches[f].st # "idle" }

\* the event loop of session s takes the model and the commands Update
\* returned; on tea.Quit the program returns, the session is closed and its
\* model is dropped
SshRun(s, ret, ticksLeft) ==
    LET p == sshSessions[s]
        fetching == Count(ret.cmds, "fetchPostsCmd") > 0
    IN  /\ fetching => Cardinality(SshIssued(s)) < MaxSessionFetches
        /\ IF Count(ret.cmds, "Quit") > 0
           THEN /\ sshModels' = [sshModels EXCEPT ![p.ref] = initialModel]
                /\ sshSessions' = [sshSessions EXCEPT ![s] =
                      [NoSession EXCEPT !.state = "closed", !.ref = p.ref, !.quit = TRUE]]
           ELSE /\ sshModels' = [sshModels EXCEPT ![p.ref] = ret.m]
                /\ sshSessions' = [sshSessions EXCEPT ![s] =
                      [p EXCEPT !.ticks = ticksLeft + Count(ret.cmds, "tick"),
                                !.fetches = IF fetching
                                            THEN [@ EXCEPT ![Cardinality(SshIssued(s)) + 1].st = "running"]
                                            ELSE @]]
        /\ UNCHANGED <<rev, glamour, m, quit, ticks, fetches, handled, fenv, fres, body, applied>>

SshKeyMsg(s, key) ==
    /\ SshLive(s)
    /\ SshRun(s, updateKeyMsg(rev, sshModels[sshSessions[s].ref], key), sshSessions[s].ticks)

SshWindowSizeMsg(s) ==
    /\ SshLive(s)
    /\ SshRun(s, updateWindowSizeMsg(rev, sshModels[sshSessions[s].ref], SshSize),
              sshSessions[s].ticks)

SshTickMsg(s) ==
    /\ SshLive(s)
    /\ sshSessions[s].ticks > 0
    /\ SshRun(s, updateTickMsg(sshModels[sshSessions[s].ref]), sshSessions[s].ticks - 1)

SshFetchReturn(s, f) ==
    /\ SshLive(s)
    /\ sshSessions[s].fetches[f].st = "running"
    /\ \E env \in SshEnvs(s) : \E msg \in fetchPostsCmd(rev, env) :
          sshSessions' = [sshSessions EXCEPT ![s].fetches[f] =
                              [st |-> "returned", msg |-> msg]]
    /\ UNCHANGED <<rev, glamour, m, quit, ticks, fetches, handled, fenv, fres, body, applied,
                   sshModels>>

SshPostsLoadedMsg(s, f) ==
    /\ SshLive(s)
    /\ sshSessions[s].fetches[f].st = "returned"
    /\ sshModels' = [sshModels EXCEPT ![sshSessions[s].ref] =
          updatePostsLoadedMsg(rev, glamour, @, sshSessions[s].fetches[f].msg).m]
    /\ sshSessions' = [sshSessions EXCEPT ![s].fetches[f] =
                          [IdleFetch EXCEPT !.st = "processed"]]
    /\ UNCHANGED <<rev, glamour, m, quit, ticks, fetches, handled, fenv, fres, body, applied>>

\* any event of session s
SshStep(s) ==
    \/ SshConnect(s)
    \/ \E key \in SshKeys : SshKeyMsg(s, key)
    \/ SshWindowSizeMsg(s)
    \/ SshTickMsg(s)
    \/ \E f \in SessionFetchIds : SshFetchReturn(s, f)
    \/ \E f \in SessionFetchIds : SshPostsLoadedMsg(s, f)

SshNext == \E s \in SessionIds : SshStep(s)

SshSpec == SshInit /\ [][SshNext]_vars

\* ================================================================ claims
\* the screen of the spec's state machine: Exited once the event loop ended
ScreenOf(mm, q) == IF q THEN "Exited" ELSE mm.currentScreen

ConfirmKeys == {"enter"}

BackKeys == {"b", "backspace"}

QuitKeys == {"q", "esc", "ctrl+c"}

\* C1: in every reachable state whose screen is the post detail screen the
\* selected post is not nil.
C1_DetailHasSelectedPost ==
    m.currentScreen = "postDetailScreen" => m.selectedPost # NilPost

\* the detail screen was entered on a post of the list
C1_Witness ==
    /\ m.currentScreen = "postDetailScreen"
    /\ \E i \in 1..Len(m.postList.items) : m.postList.items[i] = m.selectedPost

\* C2: the screen changes only along Splash->Listing (confirm),
\* Listing->Detail (confirm), Listing->Splash (back), Detail->Listing
\* (quit/back), Splash->Exited and Listing->Exited (quit); tick, resize and
\* fetch steps never change it.
C2_Edge(a, b, key) ==
    \/ a = "splashScreen" /\ b = "listScreen" /\ key \in ConfirmKeys
    \/ a = "listScreen" /\ b = "postDetailScreen" /\ key \in ConfirmKeys
    \/ a = "listScreen" /\ b = "splashScreen" /\ key \in BackKeys
    \/ a = "postDetailScreen" /\ b = "listScreen" /\ key \in QuitKeys \cup BackKeys
    \/ a = "splashScreen" /\ b = "Exited" /\ key \in QuitKeys
    \/ a = "listScreen" /\ b = "Exited" /\ key \in QuitKeys

C2_ScreenTransitions ==
    [][ ScreenOf(m', quit') # ScreenOf(m, quit)
          => /\ \E key \in Keys : KeyMsg(key)
             /\ \A key \in Keys :
                   KeyMsg(key) => C2_Edge(ScreenOf(m, quit), ScreenOf(m', quit'), key)
             /\ ~TickMsg
             /\ \A size \in Sizes : ~WindowSizeMsg(size)
             /\ \A f \in FetchIds : ~FetchReturn(f) /\ ~PostsLoadedMsg(f) ]_vars

\* the program was quit from the list screen after posts had been loaded
C2_Witness ==
    /\ quit
    /\ m.currentScreen = "listScreen"
    /\ Len(m.postList.items) > 0

\* C3: a step issues a fetch exactly when it takes Splash to Listing, it then
\* issues one, with the stored error and the list cleared; and once Listing
\* has been entered twice a successful completion processed in Listing sets
\* the list.
C3_OneFetchPerListingEntry ==
    [][ /\ Cardinality(issued') - Cardinality(issued) =
              ( IF m.currentScreen = "splashScreen" /\ m'.currentScreen = "listScreen"
                THEN 1 ELSE 0 )
        /\ m.currentScreen = "splashScreen" /\ m'.currentScreen = "listScreen"
              => m'.postsError = NilError /\ m'.postList.items = <<>>
        /\ \A f \in FetchIds :
              ( /\ PostsLoadedMsg(f)
                /\ Cardinality(issued) >= 2
                /\ m.currentScreen = "listScreen"
                /\ fetches[f].msg.err = NilError )
              => m'.postList.items = fetches[f].msg.posts ]_vars

\* Listing was entered twice and a completion processed after the second
\* entry filled the list
C3_Witness ==
    /\ Cardinality(issued) = 2
    /\ m.currentScreen = "listScreen"
    /\ Len(m.postList.items) > 0

\* the Go scheduler runs every goroutine and the event loop takes every
\* message sent to it: a running fetch returns, a returned message is handed
\* to Update
FairSpec ==
    Spec /\ \A f \in FetchIds : WF_vars(FetchReturn(f)) /\ WF_vars(PostsLoadedMsg(f))

\* C4: every issued fetch produces one completion message, and unless the
\* program exits first Update processes that message, once: a fetch goes from
\* running to returned to processed and no other way, whatever the screen
\* does meanwhile, and a running fetch is in the end processed.
C4_Order(a, b) ==
    \/ a = b
    \/ a = "idle" /\ b = "running"
    \/ a = "running" /\ b = "returned"
    \/ a = "returned" /\ b = "processed"

C4_CompletionExactlyOnce ==
    /\ [](\A f \in FetchIds : fetches[f].st = "running"
              => \A env \in UiEnvs : fetchPostsCmd(rev, env) # {})
    /\ [][ \A f \in FetchIds :
              /\ C4_Order(fetches[f].st, fetches'[f].st)
              /\ fetches[f].st = "returned" /\ fetches'[f].st = "processed"
                    => m' = updatePostsLoadedMsg(rev, glamour, m, fetches[f].msg).m ]_vars
    /\ \A f \in FetchIds :
          [](fetches[f].st = "running" => <>(fetches[f].st = "processed" \/ quit))

\* a fetch abandoned by going back to Splash was processed after Listing was
\* entered again, while the second fetch is still in flight
C4_Witness ==
    /\ ~quit
    /\ fetches[1].st = "processed"
    /\ fetches[2].st = "running"
    /\ m.currentScreen = "listScreen"

\* C5: a completion is applied the same way on every screen: the list, the
\* stored error and the loading flag it leaves are those it leaves on a fresh
\* model, the screen and the selected post stay, and applying it a second
\* time changes nothing.
C5_Apply(mm, msg) == updatePostsLoadedMsg(rev, glamour, mm, msg).m

C5_CompletionSameOnEveryScreen ==
    \A f \in FetchIds :
        fetches[f].st = "returned" =>
            LET msg == fetches[f].msg
                once == C5_Apply(m, msg)
                fresh == C5_Apply(initialModel, msg)
            IN  /\ once.currentScreen = m.currentScreen
                /\ once.selectedPost = m.selectedPost
                /\ once.postList.items = fresh.postList.items
                /\ once.postsError = fresh.postsError
                /\ once.loadingPosts = fresh.loadingPosts
                /\ C5_Apply(once, msg) = once

\* a completion was applied on the detail screen: only that stores an error
\* there
C5_Witness ==
    /\ m.currentScreen = "postDetailScreen"
    /\ m.postsError # NilError

\* C6: processing a completion with an error stores the error and empties
\* the list; processing one without error makes the list exactly the
\* returned posts, in their order, and clears the stored error.
C6_CompletionReplacesList ==
    [][ \A f \in FetchIds :
            PostsLoadedMsg(f) =>
                IF fetches[f].msg.err # NilError
                THEN m'.postsError = fetches[f].msg.err /\ m'.postList.items = <<>>
                ELSE m'.postList.items = fetches[f].msg.posts /\ m'.postsError = NilError ]_vars

\* two completions were processed and the list holds posts: the second
\* replaced what the first had left
C6_Witness ==
    /\ \A f \in FetchIds : fetches[f].st = "processed"
    /\ Len(m.postList.items) > 0
    /\ m.postsError = NilError

\* ------------------------------------------------- claims about the fetch
\* what the specification calls an eligible entry: a file with the document
\* suffix and a download locator
Eligible(c) == c.Type = "file" /\ c.Name[2] = ".mdx" /\ c.DownloadURL # 0

\* the positions of the listing whose download and parse succeed, and fail
Succeeded(env) ==
    { i \in 1..Len(env.contents) : Eligible(env.contents[i]) /\ env.contents[i].resp = "ok" }

Failed(env) ==
    { i \in 1..Len(env.contents) : Eligible(env.contents[i]) /\ env.contents[i].resp # "ok" }

SetMin(S) == CHOOSE i \in S : \A j \in S : i <= j

\* C7: the fetch returns an error exactly when no document was parsed and an
\* error was recorded (at the listing stage or for an entry); an error result
\* carries no documents.
C7_ErrorIffNothingLoaded ==
    fres # <<>> =>
        LET msg == fres[1].msg
        IN  /\ msg.err # NilError <=>
                  ( /\ Succeeded(fenv) = {}
                    /\ (fenv.listing # "ok" \/ Failed(fenv) # {}) )
            /\ msg.err # NilError => msg.posts = <<>>

\* a fetch with two failing entries and a parsed one returned success
C7_Witness ==
    /\ fres # <<>>
    /\ fres[1].msg.err = NilError
    /\ Cardinality(Failed(fenv)) >= 2
    /\ Succeeded(fenv) # {}

\* C8: a failing entry does not end the fetch: every failing eligible entry
\* of the listing is attempted (its failure is logged), and a successful
\* result holds exactly the documents of the entries that succeeded, one
\* each.
C8_FailuresDoNotAbort ==
    fres # <<>> /\ fenv.listing = "ok" =>
        LET msg == fres[1].msg
            log == fres[1].log
        IN  /\ \A i \in Failed(fenv) :
                  \E k \in 1..Len(log) :
                      log[k] = <<fenv.contents[i].DownloadURL, fenv.contents[i].resp>>
            /\ msg.err = NilError =>
                  /\ Len(msg.posts) = Cardinality(Succeeded(fenv))
                  /\ { msg.posts[k] : k \in 1..Len(msg.posts) } =
                        { PostMetadata(fenv.contents[i]) : i \in Succeeded(fenv) }

\* the first and the last entry failed and the one between them was loaded
C8_Witness ==
    /\ fres # <<>>
    /\ Len(fenv.contents) = MaxEntries
    /\ 1 \in Failed(fenv) /\ MaxEntries \in Failed(fenv)
    /\ Len(fres[1].msg.posts) = 1

\* C9: when no document was parsed and entries failed, the returned error
\* wraps the failure of the first failing entry of the listing.
C9_FirstErrorIsEarliest ==
    fres # <<>> /\ fenv.listing = "ok" /\ Succeeded(fenv) = {} /\ Failed(fenv) # {} =>
        LET first == fenv.contents[SetMin(Failed(fenv))]
            err == fres[1].msg.err
        IN  /\ err.wrapped
            /\ Unwrap(err) = Errorf(first.resp, first.DownloadURL)

\* two entries failed in different ways and the error is the first one's
C9_Witness ==
    /\ fres # <<>>
    /\ Cardinality(Failed(fenv)) >= 2
    /\ \E i, j \in Failed(fenv) : i < j /\ fenv.contents[i].resp # fenv.contents[j].resp
    /\ fres[1].msg.err # NilError

\* C10: the posts of every returned message and the posts the list holds are
\* in non-increasing order of publish date.
C10_AlwaysSortedByDate ==
    /\ IsSortedDesc(m.postList.items)
    /\ \A f \in FetchIds : fetches[f].st = "returned" => IsSortedDesc(fetches[f].msg.posts)

\* revision 2, which sorts before it returns, keeps that order
C10_SortedInRevision2 == rev = 2 => C10_AlwaysSortedByDate

\* --------------------------------------------------- text transform claims
\* the spec's two skip rules, read off the characters of a match
IsMarkerText(text) ==
    /\ Len(text) >= 3
    /\ text[1] = "[" /\ text[Len(text)] = "]"
    /\ \A i \in 2..(Len(text) - 1) : IsDigit(text[i])

IsTargetUrl(url) ==
    \/ (Len(url) >= 4 /\ SubSeq(url, 1, 4) = <<"#", "f", "n", ":">>)
    \/ (Len(url) >= 7 /\ SubSeq(url, 1, 7) = <<"#", "f", "n", "r", "e", "f", ":">>)

Skipped(mt) == IsMarkerText(mt.text) \/ IsTargetUrl(mt.url)

\* the [text](url) matches of s in order of appearance, and those of them
\* that are transformed
MatchesOf(s) == reFindAll(s, 1)

TransformedOf(s) == SelectSeq(MatchesOf(s), LAMBDA mt : ~Skipped(mt))

\* "text [i]"
Marked(text, i) == text \o <<" ", "[">> \o Itoa(i) \o <<"]">>

\* s from index p on with the i-th, (i+1)-th, ... link of T replaced by its
\* text and number
RECURSIVE Spliced(_, _, _, _)
Spliced(s, p, T, i) ==
    IF i > Len(T) THEN SubSeq(s, p, Len(s))
    ELSE SubSeq(s, p, T[i].start - 1) \o Marked(T[i].text, i)
         \o Spliced(s, T[i].end + 1, T, i + 1)

\* the footnote block for the links T: separator, header, "[i]: url_i" lines
BlockOf(T) ==
    footnotesHeader
    \o Concat([i \in 1..Len(T) |-> <<"[">> \o Itoa(i) \o <<"]", ":", " ">>
                                     \o T[i].url \o <<"\n">>])

\* C11: for a body with k >= 1 transformed links, the output is the body with
\* the i-th transformed link replaced by "text [i]", followed by the separator,
\* the Footnotes header and exactly the k lines "[i]: url_i", i = 1..k
C11_LinksBecomeNumberedFootnotes ==
    Len(applied) >= 1 =>
        LET T == TransformedOf(body)
        IN  Len(T) > 0 => applied[1] = Spliced(body, 1, T, 1) \o BlockOf(T)

\* two links with different urls are transformed and a third match is not
C11_Witness ==
    /\ Len(applied) >= 1
    /\ Len(TransformedOf(body)) = 2
    /\ Len(MatchesOf(body)) = 3
    /\ TransformedOf(body)[1].url # TransformedOf(body)[2].url

\* C12: applying the transform to its own output changes nothing
C12_Idempotent ==
    Len(applied) = 2 => applied[2] = applied[1]

\* C13: a body in which no link is transformed is returned character for
\* character, with no footnote block
C13_NothingTransformedReturnsInput ==
    Len(applied) >= 1 /\ TransformedOf(body) = <<>> => applied[1] = body

\* the body holds a skipped match and broken link syntax, and nothing else
C13_Witness ==
    /\ Len(applied) >= 1
    /\ TransformedOf(body) = <<>>
    /\ MatchesOf(body) # <<>>
    /\ \E i \in 1..Len(body) : body[i] = "[" /\ reMatchAt(body, i) = NoMatch

\* where the match mt of the body is found in the output: every transformed
\* link before it changes the length by that of " [i]" less that of "[](url)"
RECURSIVE Shift(_, _, _)
Shift(T, i, mt) ==
    IF i > Len(T) \/ T[i].start > mt.start THEN 0
    ELSE Len(Marked(T[i].text, i)) - Len(T[i].match) + Shift(T, i + 1, mt)

\* C20: a match whose text is a marker "[<integer>]" or whose url begins with
\* "#fn:" or "#fnref:" is found verbatim in the output, and the footnote block
\* numbers the transformed links alone, 1..k
C20_SkippedMatchesLeftVerbatim ==
    Len(applied) >= 1 =>
        LET T   == TransformedOf(body)
            out == applied[1]
        IN  /\ \A j \in 1..Len(MatchesOf(body)) :
                  LET mt == MatchesOf(body)[j]
                      at == mt.start + Shift(T, 1, mt)
                  IN  Skipped(mt) =>
                          SubSeq(out, at, at + Len(mt.match) - 1) = mt.match
            /\ stringsHasSuffix(out, IF Len(T) > 0 THEN BlockOf(T) ELSE <<>>)
            /\ Len(out) = Len(Spliced(body, 1, T, 1))
                          + (IF Len(T) > 0 THEN Len(BlockOf(T)) ELSE 0)

\* a skipped match stands between two transformed links
C20_Witness ==
    /\ Len(applied) >= 1
    /\ \E j \in 2..(Len(MatchesOf(body)) - 1) :
          /\ Skipped(MatchesOf(body)[j])
          /\ ~Skipped(MatchesOf(body)[j - 1])
          /\ ~Skipped(MatchesOf(body)[j + 1])

\* ------------------------------------------------- claims about rendering
\* the model without its viewport
SansViewport(mm) == [mm EXCEPT !.viewport = viewportNew(0, 0)]

\* C14: when glamour fails while a loaded post is rendered, the viewport shows
\* "Error initializing renderer." (no renderer) or "Error rendering content."
\* (Render failed), and the same Update step installs the posts, clears
\* loadingPosts, keeps the screen, does not quit, and every key is afterwards
\* handled as it would have been had the rendering succeeded
C14_RenderFailureDoesNotBlock ==
    [][ \A f \in FetchIds :
            ( /\ PostsLoadedMsg(f)
              /\ rev = 2 /\ glamour # "ok"
              /\ fetches[f].msg.err = NilError /\ Len(fetches[f].msg.posts) > 0 )
            => /\ m'.viewport.content.text =
                      (IF glamour = "NewTermRenderer"
                       THEN "Error initializing renderer."
                       ELSE "Error rendering content.")
               /\ m'.postList.items = fetches[f].msg.posts
               /\ ~m'.loadingPosts
               /\ m'.currentScreen = m.currentScreen
               /\ ~quit'
               /\ LET rendered == updatePostsLoadedMsg(2, "ok", m, fetches[f].msg).m
                  IN  \A key \in Keys :
                         /\ updateKeyMsg(2, m', key).cmds
                                = updateKeyMsg(2, rendered, key).cmds
                         /\ SansViewport(updateKeyMsg(2, m', key).m)
                                = SansViewport(updateKeyMsg(2, rendered, key).m) ]_vars

\* Render failed for a loaded post and the user has since gone back to the
\* splash screen
C14_Witness ==
    /\ rev = 2 /\ glamour = "Render"
    /\ m.viewport.content.text = "Error rendering content."
    /\ Len(m.postList.items) > 0
    /\ ~m.loadingPosts
    /\ m.currentScreen = "splashScreen"

\* C15: whenever rendered content is displayed, it is wrapped to the width
\* derived from the current window width
C15_ContentWrappedToWindow ==
    m.viewport.content.text = "formatted" => m.viewport.content.wrap = m.width - 2

\* ------------------------------------------------- claims about sessions
\* what a connected session shows: screen, entry list, stored error, loading
\* flag and selected document
SessionView(s) ==
    LET mm == sshModels[sshSessions[s].ref]
    IN  [currentScreen |-> mm.currentScreen, postList |-> mm.postList,
         postsError |-> mm.postsError, loadingPosts |-> mm.loadingPosts,
         selectedPost |-> mm.selectedPost]

\* C16: an event of one session (its connection, a key, a tick, a resize, a
\* fetch completion) leaves what every other connected session shows
\* unchanged: a step that changes what session s shows is no event of another
C16_SessionsIsolated ==
    [][ \A s \in SessionIds :
            sshSessions[s].state = "running" /\ SessionView(s)' # SessionView(s)
            => \A t \in SessionIds \ {s} : ~SshStep(t) ]_vars

\* both sessions are connected and show different things: one lists loaded
\* posts, the other an error
C16_Witness ==
    /\ \A s \in SessionIds : sshSessions[s].state = "running"
    /\ Len(SessionView(1).postList.items) > 0
    /\ SessionView(2).postsError # NilError
    /\ SessionView(1).currentScreen # SessionView(2).currentScreen

\* ------------------------------------- more claims about the fetch
\* the positions of the listing holding a file with the document suffix and
\* an empty download locator
NoLocator(env) ==
    { i \in 1..Len(env.contents) :
        /\ env.contents[i].Type = "file"
        /\ env.contents[i].Name[2] = ".mdx"
        /\ env.contents[i].DownloadURL = 0 }

LogLines(log) == { log[i] : i \in 1..Len(log) }

\* the part of C17 the code keeps: an entry without download locator is noted
\* in the log, nothing is downloaded for it, and an error the fetch returns is
\* never about it
C17_NoLocatorNeverFirstError ==
    fres # <<>> /\ fenv.listing = "ok" =>
        /\ \A i \in NoLocator(fenv) :
              <<fenv.contents[i].Name[1], "Skipping file">> \in LogLines(fres[1].log)
        /\ \A line \in LogLines(fres[1].log) :
              line[2] # "Skipping file" => line[1] # 0
        /\ fres[1].msg.err # NilError => Unwrap(fres[1].msg.err).url # 0

\* C17: an entry without download locator is skipped without a download and
\* is not the first error when another problem is recorded; when it is the
\* only problem of the fetch, it is the first error, so that a fetch which
\* loads nothing because of it returns an error
C17_NoLocatorCountsWhenOnlyProblem ==
    /\ C17_NoLocatorNeverFirstError
    /\ ( /\ fres # <<>> /\ fenv.listing = "ok"
         /\ NoLocator(fenv) # {} /\ Failed(fenv) = {} /\ Succeeded(fenv) = {} )
       => fres[1].msg.err # NilError

\* C18: the sort is stable: parsed documents with equal publish dates are
\* returned in the order of their entries in the listing (Slug is the
\* position of the entry)
C18_SortIsStable ==
    fres # <<>> =>
        LET posts == fres[1].msg.posts
        IN  \A a, b \in 1..Len(posts) :
                a < b /\ posts[a].PublishDate = posts[b].PublishDate
                => posts[a].Slug < posts[b].Slug

\* C19: when the listing request fails at any of its stages, the fetch
\* returns that error, unwrapped, with no documents, and downloads none of the
\* files the directory holds
C19_ListingFailureIsTotal ==
    fres # <<>> /\ fenv.listing # "ok" =>
        /\ fres[1].msg.err = Errorf(fenv.listing, 0)
        /\ fres[1].msg.posts = <<>>
        /\ fres[1].log = <<<<0, fenv.listing>>>>

\* the payload could not be decoded while the directory holds files that
\* would have been downloaded and parsed
C19_Witness ==
    /\ fres # <<>>
    /\ fenv.listing = "unmarshalling API JSON"
    /\ Len(fenv.remote) = MaxEntries
    /\ \A i \in 1..Len(fenv.remote) :
          /\ fenv.remote[i].Type = "file" /\ fenv.remote[i].Name[2] = ".mdx"
          /\ fenv.remote[i].DownloadURL # 0 /\ fenv.remote[i].resp = "ok"

\* ------------------------------------------- claims about the list screen
\* the list screen while the list widget's filter is being typed
Filtering(mm) == mm.currentScreen = "listScreen" /\ mm.postList.filterState = "Filtering"

\* C21 as stated: while the filter is being typed no key changes the screen,
\* exits the program or sets the selected post
C21_NoKeyActsWhileFiltering ==
    [][ Filtering(m) =>
            \A key \in Keys :
                KeyMsg(key) => /\ m'.currentScreen = m.currentScreen
                               /\ ~quit'
                               /\ m'.selectedPost = m.selectedPost ]_vars

\* C21 amended: while the filter is being typed every key is only handed to
\* the list widget, no tick or fetch is issued, and no key but ctrl+c, the
\* widget's force-quit binding, exits the program
C21_KeysOnlyForwardedWhileFiltering ==
    [][ Filtering(m) =>
            \A key \in Keys :
                KeyMsg(key) => /\ m' = [m EXCEPT !.postList = listUpdate(m.postList, key)[1]]
                               /\ ticks' = ticks /\ fetches' = fetches
                               /\ quit' = (key = "ctrl+c") ]_vars

\* the filter was typed and accepted with enter: the screen is still the list
\* and no post is selected
C21_Witness ==
    /\ m.currentScreen = "listScreen"
    /\ m.postList.filterState = "FilterApplied"
    /\ m.selectedPost = NilPost
    /\ ~quit

\* C22: in the list screen outside filter mode, enter opens the detail screen
\* only on a highlighted entry, which becomes the selected post and is an item
\* of the list; with no entry highlighted the screen stays and no post is
\* selected.  Revision 1 opens the detail screen on every highlighted entry.
C22_ConfirmSelectsHighlighted ==
    [][ ( /\ m.currentScreen = "listScreen"
          /\ m.postList.filterState # "Filtering"
          /\ KeyMsg("enter") )
        => LET item == listSelectedItem(m.postList)
           IN  /\ m'.currentScreen = "postDetailScreen"
                     => /\ item # NilPost
                        /\ m'.selectedPost = item
                        /\ \E i \in 1..Len(m.postList.items) : m.postList.items[i] = item
               /\ item = NilPost
                     => m'.currentScreen = "listScreen" /\ m'.selectedPost = NilPost
               /\ rev = 1 /\ item # NilPost => m'.currentScreen = "postDetailScreen" ]_vars

\* the cursor was moved down and the second entry of the list was opened
C22_Witness ==
    /\ m.currentScreen = "postDetailScreen"
    /\ Len(m.postList.items) >= 2
    /\ m.postList.index = 1
    /\ m.selectedPost = m.postList.items[2]

\* ----------------------------------------- claims about the detail screen
DetailBackKeys == {"q", "esc", "b", "backspace"}

\* C23: in the detail screen q, esc, b and backspace lead to the list screen
\* and clear the selected post and the viewport content, the list and the
\* stored error staying as they are; every other key leaves the screen, the
\* selected post and the list as they are and is handed to the viewport
C23_DetailKeys ==
    m.currentScreen = "postDetailScreen" /\ ~quit =>
        \A key \in Keys :
            LET ret == updateKeyMsg(rev, m, key)
            IN  IF key \in DetailBackKeys
                THEN /\ ret.m.currentScreen = "listScreen"
                     /\ ret.m.selectedPost = NilPost
                     /\ ret.m.viewport.content = NoContent
                     /\ ret.m.postList = m.postList
                     /\ ret.m.postsError = m.postsError
                     /\ ret.cmds = <<>>
                ELSE /\ ret.m.currentScreen = m.currentScreen
                     /\ ret.m.selectedPost = m.selectedPost
                     /\ ret.m.postList = m.postList
                     /\ "viewport" \in forwardedTo(rev, m, key)

\* the part of C23 the code keeps: all of it but the handing of the other
\* keys to a viewport, which the detail screen does not have
C23_DetailKeysFrame ==
    m.currentScreen = "postDetailScreen" /\ ~quit =>
        \A key \in Keys :
            LET ret == updateKeyMsg(rev, m, key)
            IN  IF key \in DetailBackKeys
                THEN /\ ret.m.currentScreen = "listScreen"
                     /\ ret.m.selectedPost = NilPost
                     /\ ret.m.viewport.content = NoContent
                     /\ ret.m.postList = m.postList
                     /\ ret.m.postsError = m.postsError
                     /\ ret.cmds = <<>>
                ELSE ret = Ret(m, <<>>)

\* the model's variables a fetch could touch
StateMachineVars(mm) ==
    <<mm.postList, mm.postsError, mm.loadingPosts, mm.selectedPost, mm.currentScreen>>

\* C24: a running fetch changes none of the state machine's variables (entry
\* list, stored error, loading flag, selected document, screen): the step in
\* which the goroutine returns leaves the model, the quit flag and the timers
\* alone, the model changes only in Update steps, and a fetch acts on it only
\* through its one completion message, handed to Update once
C24_FetchActsOnlyThroughItsMessage ==
    [][ /\ \A f \in FetchIds :
              FetchReturn(f) => /\ StateMachineVars(m') = StateMachineVars(m)
                                /\ m' = m
                                /\ quit' = quit
                                /\ ticks' = ticks
        /\ m' # m => \/ \E key \in Keys : KeyMsg(key)
                     \/ \E size \in Sizes : WindowSizeMsg(size)
                     \/ TickMsg
                     \/ \E f \in FetchIds : PostsLoadedMsg(f)
        /\ \A f \in FetchIds :
              /\ fetches[f].st = "returned" /\ fetches'[f].st = "processed"
                    => m' = updatePostsLoadedMsg(rev, glamour, m, fetches[f].msg).m
              /\ fetches[f].st = "processed" => fetches'[f].st = "processed"
              /\ fetches[f].st = "returned" => fetches'[f].st \in {"returned", "processed"}
      ]_vars

\* a fetch has returned posts and the model still shows the loading view
\* with an empty list: the message has not been handed to Update yet
C24_Witness ==
    /\ m.currentScreen = "listScreen"
    /\ m.loadingPosts
    /\ m.postList.items = <<>>
    /\ \E f \in FetchIds : /\ fetches[f].st = "returned"
                           /\ fetches[f].msg.posts # <<>>

AllHandled ==
    /\ issued # {}
    /\ \A f \in issued : fetches[f].st = "processed"
    /\ Len(handled) = Cardinality(issued)

\* the message fetch f delivered
HandledOf(f) == (CHOOSE i \in 1..Len(handled) : handled[i].f = f)

\* C26 as claimed: once every issued fetch has delivered its completion, the
\* entry list and the stored error are those of the most recently issued
\* fetch, whatever order the completions arrived in
C26_LastIssuedFetchWins ==
    AllHandled =>
        LET msg == handled[HandledOf(Cardinality(issued))].msg
        IN  /\ m.postList.items = msg.posts
            /\ m.postsError = msg.err

\* C26 as claimed, on the list and detail screens only, where b and backspace have
\* not cleared the stored error: still not so, an older fetch's completion
\* handled after the latest one's replaces it
C26_LastIssuedFetchWinsInListing ==
    AllHandled /\ m.currentScreen # "splashScreen" =>
        LET msg == handled[HandledOf(Cardinality(issued))].msg
        IN  /\ m.postList.items = msg.posts
            /\ m.postsError = msg.err

\* C26, amended: once every issued fetch has delivered its completion, the
\* entry list is that of the completion handled last, whichever fetch it
\* belongs to, and so is the stored error until b or backspace clears it
C26_LastHandledCompletionWins ==
    AllHandled =>
        LET msg == handled[Len(handled)].msg
        IN  /\ m.postList.items = msg.posts
            /\ m.postsError \in {msg.err, NilError}
            /\ m.currentScreen # "splashScreen" => m.postsError = msg.err

\* two overlapping fetches completed out of order with different results:
\* the list screen shows what the older fetch returned
C26_Witness ==
    /\ AllHandled
    /\ Len(handled) = 2
    /\ handled[1].f = 2
    /\ handled[2].f = 1
    /\ handled[1].msg # handled[2].msg
    /\ m.currentScreen = "listScreen"
    /\ m.postList.items = handled[2].msg.posts
    /\ m.postsError = handled[2].msg.err

\* the issued fetches whose completion has not been handled yet
inFlight == { f \in issued : fetches[f].st \in {"running", "returned"} }

C28_AtMostOneTickPending ==
    ticks <= 1

\* the arming rules C28 names, which the code keeps: Init arms one timer, a
\* tick handled in the splash screen arms one, a tick handled elsewhere arms
\* none, b and backspace in the list screen arm one
C28_TimerArming ==
    [][ /\ TickMsg => ticks' = IF m.currentScreen = "splashScreen" THEN ticks ELSE ticks - 1
        /\ \A key \in {"b", "backspace"} :
              /\ m.currentScreen = "listScreen"
              /\ m.postList.filterState # "Filtering"
              /\ KeyMsg(key)
              => ticks' = ticks + 1
        /\ ticks' > ticks => \E key \in {"b", "backspace"} : KeyMsg(key)
      ]_vars

\* C29: a stored fetch error and a non-empty entry list never coexist:
\* whenever postsError is non-nil the entry list is empty, after any sequence
\* of confirm, back and success or error completions in any order
C29_ErrorMeansEmptyList ==
    m.postsError # NilError => /\ m.postList.items = <<>>
                               /\ listVisibleItems(m.postList) = <<>>

\* a completion with posts was handled and after it a completion with an
\* error: the error is stored and the list is empty
C29_Witness ==
    /\ Len(handled) = 2
    /\ handled[1].msg.posts # <<>>
    /\ handled[2].msg.err # NilError
    /\ m.postsError = handled[2].msg.err
    /\ m.postList.items = <<>>

====
